---------------------------- MODULE Spec2Model ----------------------------
(***************************************************************************)
(* State-machine model of the murattil-quran transcription gateway:        *)
(*   - the synchronous retry handler      (src/unnamed/part_001, and its   *)
(*     near-duplicate src/unnamed/part_000),                               *)
(*   - the single-shot HuggingFace proxies (src/unnamed/part_002 and the   *)
(*     first module of src/netlify/functions/transcribe.mjs),              *)
(*   - the asynchronous AssemblyAI handler (second module of               *)
(*     src/netlify/functions/transcribe.mjs).                              *)
(* One request is followed from its arrival to the Response the handler    *)
(* returns.  Every await on the network or on a timer is one step.         *)
(***************************************************************************)
EXTENDS Integers, Sequences, FiniteSets, Bags, TLC

VARIABLES
    handler,      \* which handler module serves /api/transcribe
    keySet,       \* whether the credential env variable is configured
    req,          \* the inbound request
    pc,           \* position of the handler
    attempt,      \* retry handler: the for-loop variable `attempt`
    hist,         \* retry/proxy: status of every backend call made (0: fetch rejected)
    cur,          \* the outcome of the latest backend fetch (a response or a rejection)
    waits,        \* retry handler: the backoff waits performed, in order
    upStatus,     \* AssemblyAI: statuses of the upload calls made
    subStatus,    \* AssemblyAI: statuses of the submit calls made
    polls,        \* AssemblyAI: number of job-status fetches made
    pollWaits,    \* AssemblyAI: number of 1 s poll waits performed
    attempts,     \* AssemblyAI: transcribeAudio's local `attempts`
    allPending,   \* AssemblyAI: every status fetch so far returned a non-terminal job status
    out,          \* the Response returned by the handler (NoResponse until then)
    cache,        \* service worker: the URLs stored in the cache CACHE_NAME
    puts,         \* service worker: the cache.put calls not yet completed, a bag of entries
    ev,           \* service worker: the fetch events, each with its request and progress
    answered      \* service worker: the audio requests the network has answered with an ok response

\* the state of the handler serving /api/transcribe
gwVars == <<handler, keySet, req, pc, attempt, hist, cur, waits, upStatus,
            subStatus, polls, pollWaits, attempts, allPending, out>>

\* the state of the service worker of the page
swVars == <<cache, puts, ev, answered>>

vars == <<handler, keySet, req, pc, attempt, hist, cur, waits, upStatus,
          subStatus, polls, pollWaits, attempts, allPending, out,
          cache, puts, ev, answered>>

---------------------------------------------------------------------------
(* Program constants *)

MAX_RETRIES == 5
BASE_WAIT == 20000
WAIT_INCREMENT == 15000
MIN_AUDIO_BYTES == 100
maxAttempts == 60
DETAIL_CAP == 200
HF_DETAIL_CAP == 300

(* Bounds of the model *)

\* payload lengths offered are 0, MIN_AUDIO_BYTES - 1, and MIN_AUDIO_BYTES .. MIN_AUDIO_BYTES + ExtraLen
ExtraLen == 0

\* number of characters of the configured credential
KeyLen == 8

\* number of characters of a short backend error text
ShortLen == 40

---------------------------------------------------------------------------
(* Inputs *)

RetryHandlers == {"retry000", "retry001"}
ProxyHandlers == {"proxy002", "proxyHF"}
AsyncHandlers == {"assembly"}
Handlers == RetryHandlers \cup ProxyHandlers \cup AsyncHandlers

Methods == {"POST", "GET"}

PayloadLens == {0, MIN_AUDIO_BYTES - 1} \cup (MIN_AUDIO_BYTES .. MIN_AUDIO_BYTES + ExtraLen)

\* the messages request.arrayBuffer() rejects with, as the runtime words them
ReadErrors == {"aborted", "terminated",
               "Body is unusable: Body has already been read"}

\* readable = FALSE: request.arrayBuffer() rejects (the client connection
\* broke), with the message readErr
Requests ==
    [method : Methods, readable : {TRUE}, len : PayloadLens, readErr : {""}]
      \cup [method : Methods, readable : {FALSE}, len : PayloadLens,
               readErr : ReadErrors]

Undefined == "<undefined>"
Texts == {"bismillah", "alhamdu"}

\* a text field that is truthy and not a string: 123, true, ["bismillah"]
NotAString == "<not a string>"

Statuses == {200, 404, 429, 500, 503}

\* A piece of text, as far as the handlers and the claims look at it: its
\* number of characters, and the index at which the configured credential
\* occurs in it (NoKey: it does not occur).
NoKey == -1
Txt(len, keyAt) == [len |-> len, keyAt |-> keyAt]

\* a string literal of the program, n characters long
Lit(n) == Txt(n, NoKey)

\* String.prototype.substring(0, n): the first n characters; an occurrence of
\* the credential survives when it ends within them
Substring(t, n) ==
    [len |-> IF t.len < n THEN t.len ELSE n,
     keyAt |-> IF t.keyAt # NoKey /\ t.keyAt + KeyLen <= n THEN t.keyAt ELSE NoKey]

\* a template literal `<n characters>${t}`
Prefixed(n, t) ==
    [len |-> n + t.len,
     keyAt |-> IF t.keyAt # NoKey THEN n + t.keyAt ELSE NoKey]

\* a backend text longer than both detail caps
LongLen == HF_DETAIL_CAP + KeyLen

\* Raw texts a backend sends as an error body or a job error: short or long,
\* free of the credential or echoing it at the start, across the 200th
\* character, or after the 300th.
RawTexts ==
    {Txt(ShortLen, NoKey), Txt(ShortLen, 0),
     Txt(LongLen, DETAIL_CAP - 1), Txt(LongLen, HF_DETAIL_CAP)}

\* the raw text of a body that carries a transcription
PlainRaw == Txt(ShortLen, NoKey)

\* the texts of a body that is not JSON: the raw texts and the empty body
NonJsonRaw == RawTexts \cup {Lit(0)}

\* A backend response body as the inference endpoint can send it; raw is its
\* text as response.text() gives it.
\*   kind "stalled": the headers arrived but the body never completes
\*   kind "failed":  the connection is lost after the headers: the read of
\*                   the body rejects
\*   kind "object":  a JSON object; text is its text field (Undefined: no such field)
\*   kind "array":   JSON that is not an object with a text field
\*   kind "null":    the JSON literal null
\*   kind "nonjson": not JSON at all (an HTML error page, an empty body)
Bodies ==
    [kind : {"object"}, text : Texts \cup {"", NotAString}, raw : {PlainRaw}]
      \cup [kind : {"object"}, text : {Undefined}, raw : RawTexts]
      \cup [kind : {"nonjson"}, text : {Undefined}, raw : NonJsonRaw]
      \cup [kind : {"array", "null"}, text : {Undefined}, raw : {PlainRaw}]
      \cup [kind : {"stalled", "failed"}, text : {Undefined}, raw : {Lit(0)}]

NoBody == [kind |-> "none", text |-> Undefined, raw |-> Lit(0)]

FetchErrors == {"fetch failed", "This operation was aborted"}

\* What one `await fetch(...)` can do: reject, or resolve to a response.
FetchOutcomes ==
    [threw : {TRUE}, msg : FetchErrors, status : {0}, body : {NoBody}]
      \cup [threw : {FALSE}, msg : {""}, status : Statuses, body : Bodies]

NoOutcome == [threw |-> FALSE, msg |-> "", status |-> 0, body |-> NoBody]

---------------------------------------------------------------------------
(* Responses *)

\* A Response is recorded by its outer HTTP status, whether its body is JSON,
\* and the error, text, detail and status fields of the JSON body (bstatus is
\* the body's status field, 0 when absent).  The detail field holds a name
\* for the text the code puts there: "errorText" / "hfText" / "hfBody" for
\* the backend body, err.message for a caught exception.

\* dtext is the detail field as a text (its length, the credential in it).

NoResponse == [status |-> 0, json |-> FALSE, error |-> "", text |-> "",
               detail |-> "", bstatus |-> 0, dtext |-> Lit(0)]

\* the number of characters of the messages the handlers put in detail;
\* "Upload failed" and the like stand for the message with the status in it
MsgLen(msg) ==
    CASE msg = "fetch failed" -> 12
      [] msg = "This operation was aborted" -> 26
      [] msg = "aborted" -> 7
      [] msg = "terminated" -> 10
      [] msg = "Body is unusable: Body has already been read" -> 44
      [] msg = "data.text.substring is not a function" -> 37
      [] msg = "text.trim is not a function" -> 27
      [] msg = "Upload failed" -> 18
      [] msg = "Transcription submission failed" -> 36
      [] msg = "Transcription timeout" -> 21
      [] msg = "Transcription error" -> 21
      [] msg = "API returned valid response but no text field" -> 45
      [] msg = "No speech detected in audio" -> 27
      [] OTHER -> 0

\* The message of the SyntaxError of response.json().  It depends on the
\* characters of the body, of which a text records the length and the place
\* of the credential only: the parser's complaint and the index it stops at
\* are any that some body of that length can give.  When the parser meets a
\* character it does not expect, the message quotes the text around it:
\* `Unexpected token 'h', ..."aaaaaaa", hf_S3cr3zz"... is not valid JSON`.
\* Its other complaints name the position only:
\* `Unterminated string in JSON at position 40`.

\* how a text fails to parse: the complaint and the index the parser stops at
Failure(why, pos) == [why |-> why, pos |-> pos]

\* the complaints that name the position only
PositionComplaints ==
    {"Unterminated string",
     "Expected ',' or '}' after property value",
     "Expected ',' or ']' after array element",
     "Unexpected non-whitespace character after JSON",
     "Unexpected number",
     "Unexpected string",
     "Expected double-quoted property name",
     "Expected ':' after property name",
     "Expected property name or '}'",
     "Bad control character in string literal",
     "Bad escaped character",
     "Bad Unicode escape",
     "Exponent part is missing a number",
     "No number after minus sign",
     "Unterminated fractional number"}

\* what the parser complains of
Complaints ==
    {"Unexpected token", "Unexpected end of JSON input"} \cup PositionComplaints

\* The failures of a text that is not JSON: an unexpected character is at
\* an index of the text, a string left open and a cut-off text are found
\* where the text ends, the other complaints are made at any index or at
\* the end.
FailuresOf(t) ==
    {f \in [why : Complaints, pos : 0 .. t.len] :
       CASE f.why = "Unexpected token" -> f.pos < t.len
         [] f.why = "Unexpected end of JSON input" -> f.pos = t.len
         [] f.why = "Unterminated string" -> t.len > 0 /\ f.pos = t.len
         [] OTHER -> t.len > 0}

\* the characters quoted on either side of the unexpected one
JSON_CONTEXT == 10
\* `Unexpected token 'h', ` before the quoted text
TOKEN_MSG_HEAD == 22
\* ` is not valid JSON` after it
TOKEN_MSG_TAIL == 18
\* `...`, put where the quoted text leaves out a part of the body
DOTS == 3
\* a quotation mark
QUOTE == 1

\* the message for an unexpected character at index pos of the text t: a
\* text of no more than twice the context is quoted whole, a longer one
\* from JSON_CONTEXT characters before pos to JSON_CONTEXT characters from
\* pos on; the credential is in the message when the quoted part holds it
TokenErrorText(t, pos) ==
    LET whole == t.len < 2 * JSON_CONTEXT + 1
        cutBefore == ~whole /\ pos >= JSON_CONTEXT
        cutAfter == ~whole /\ pos < t.len - JSON_CONTEXT
        from == IF cutBefore THEN pos - JSON_CONTEXT ELSE 0
        to == IF cutAfter THEN pos + JSON_CONTEXT ELSE t.len
        head == TOKEN_MSG_HEAD + (IF cutBefore THEN DOTS ELSE 0) + QUOTE
        tail == QUOTE + (IF cutAfter THEN DOTS ELSE 0) + TOKEN_MSG_TAIL
    IN  [len |-> head + (to - from) + tail,
         keyAt |-> IF t.keyAt # NoKey /\ t.keyAt >= from /\ t.keyAt + KeyLen <= to
                   THEN head + (t.keyAt - from)
                   ELSE NoKey]

\* the number of decimal digits of a position
Digits(n) == IF n < 10 THEN 1 ELSE IF n < 100 THEN 2 ELSE 3

\* the characters of a complaint up to the position it ends with:
\* `Unterminated string in JSON at position `
\* (` at position ` after `Unexpected non-whitespace character after JSON`)
ComplaintLen(why) ==
    CASE why = "Unterminated string" -> 40
      [] why = "Expected ',' or '}' after property value" -> 61
      [] why = "Expected ',' or ']' after array element" -> 60
      [] why = "Unexpected non-whitespace character after JSON" -> 59
      [] why = "Unexpected number" -> 38
      [] why = "Unexpected string" -> 38
      [] why = "Expected double-quoted property name" -> 57
      [] why = "Expected ':' after property name" -> 53
      [] why = "Expected property name or '}'" -> 50
      [] why = "Bad control character in string literal" -> 60
      [] why = "Bad escaped character" -> 42
      [] why = "Bad Unicode escape" -> 39
      [] why = "Exponent part is missing a number" -> 54
      [] why = "No number after minus sign" -> 47
      [] why = "Unterminated fractional number" -> 51

\* `Unexpected end of JSON input`
END_MSG_LEN == 28

\* err.message when a body with the text t fails to parse in the way f
SyntaxErrorText(t, f) ==
    IF f.why = "Unexpected token"
    THEN TokenErrorText(t, f.pos)
    ELSE IF f.why = "Unexpected end of JSON input"
    THEN Lit(END_MSG_LEN)
    ELSE Lit(ComplaintLen(f.why) + Digits(f.pos))

\* every message the SyntaxError of a body with the text t can have
SyntaxErrorTexts ==
    [t \in NonJsonRaw |-> {SyntaxErrorText(t, f) : f \in FailuresOf(t)}]

\* `Cannot read properties of null (reading '` and `')`
NULL_MSG_LEN == 43

\* the property the code reads first from the parsed body: data.text in the
\* retry handlers, data.upload_url, submitData.id and pollData.status in the
\* asynchronous one
PropertyRead ==
    CASE pc = "uploadread" -> "upload_url"
      [] pc = "submitread" -> "id"
      [] pc = "pollread" -> "status"
      [] OTHER -> "text"

NameLen(name) ==
    CASE name = "upload_url" -> 10
      [] name = "id" -> 2
      [] name = "status" -> 6
      [] name = "text" -> 4

\* err.message when that property is read from null
TypeErrorText == Lit(NULL_MSG_LEN + NameLen(PropertyRead))

\* err.message of the errors whose text does not depend on a body
ErrText(msg) ==
    IF msg = "Cannot read properties of null" THEN TypeErrorText
    ELSE Lit(MsgLen(msg))

\* a caught error: a name for its message, and the message as a text
Error(msg) == [msg |-> msg, text |-> ErrText(msg)]

\* the SyntaxErrors response.json() can reject with for the body
SyntaxErrors(body) ==
    {[msg |-> "Unexpected token in JSON", text |-> m] :
       m \in SyntaxErrorTexts[body.raw]}

\* the TypeError of reading a property of null
NullError == Error("Cannot read properties of null")

\* new Response(JSON.stringify({...}), {status})
Envelope(st, err, txt, det, bst) ==
    [status |-> st, json |-> TRUE, error |-> err, text |-> txt,
     detail |-> det, bstatus |-> bst, dtext |-> ErrText(det)]

\* the response is an envelope the handler wrote with JSON.stringify, not
\* a backend body handed on
IsEnvelope(r) == r.json /\ "error" \in DOMAIN r

\* the handler function ran off its end: it resolved to undefined
ReturnedUndefined == [status |-> 0, json |-> FALSE, error |-> Undefined,
                      text |-> "", detail |-> "", bstatus |-> 0, dtext |-> Lit(0)]

---------------------------------------------------------------------------
(* Pure helpers *)

\* Response.ok
ResponseOk(status) == status >= 200 /\ status <= 299

\* response.json() / response.text() never settles
BodyStalls(body) == body.kind = "stalled"

\* response.json() / response.text() rejects: the body was cut off
ReadFails(body) == body.kind = "failed"

\* err.message of that rejection
ReadError == Error("terminated")

\* typeof text === "string"
IsString(text) == text # NotAString

\* response.json() rejects with a SyntaxError
JsonThrows(body) == body.kind = "nonjson"

\* reading a property of the parsed body throws a TypeError
PropertyThrows(body) == body.kind = "null"

\* JavaScript truthiness of data.text
Truthy(text) == text # Undefined /\ text # ""

\* mutant: the length check lets a payload one byte under the minimum through
TooSmall_OffByOne(len) == len < MIN_AUDIO_BYTES - 1

\* !audioData || audioData.byteLength < 100
TooSmall(len) == len < MIN_AUDIO_BYTES

\* mutant: every retry waits the base time
WaitTime_Flat(a) == BASE_WAIT

\* BASE_WAIT + attempt * 15000
WaitTime(a) == BASE_WAIT + a * WAIT_INCREMENT

---------------------------------------------------------------------------
(* The service worker of the page (sw.js): requests, routes and cache *)

\* the number of fetch events that may be in progress at the same time
NumEvents == 2

\* the number of cache.put calls that may be in progress at the same time
MaxPuts == 2

Events == 1..NumEvents

\* url.origin === self.location.origin
SelfHost == "murattil.app"

AudioHost == "cdn.islamic.network"
QuranHost == "api.alquran.cloud"
FontHosts == {"fonts.googleapis.com", "fonts.gstatic.com"}

\* const APP_SHELL = ['/', '/index.html', '/manifest.json']
APP_SHELL == {"/", "/index.html", "/manifest.json"}

\* export const config = { path: "/api/transcribe" }
GatewayPath == "/api/transcribe"

\* the paths for which url.pathname.includes('/audio/') holds
AudioPaths == {"/audio/adhan.mp3", "/quran/audio/128/ar.alafasy/1.mp3"}

SwRequest(h, p, m) == [host |-> h, path |-> p, method |-> m]

\* the requests the page makes: recitation audio from the CDN, the Quran
\* text, a font stylesheet, the app's page, the transcription gateway and a
\* script from another origin
SwRequests ==
    { SwRequest(AudioHost, "/quran/audio/128/ar.alafasy/1.mp3", "GET"),
      SwRequest(QuranHost, "/v1/surah/1", "GET"),
      SwRequest("fonts.googleapis.com", "/css2", "GET"),
      SwRequest(SelfHost, "/index.html", "GET"),
      SwRequest(SelfHost, GatewayPath, "POST"),
      SwRequest("cdn.jsdelivr.net", "/npm/lib.js", "GET") }

NoSwRequest == SwRequest("", "", "")

\* the if-chain of the fetch listener
RouteOf(r) ==
    IF r.host = AudioHost \/ r.path \in AudioPaths THEN "audio"
    ELSE IF r.host = QuranHost THEN "quran"
    ELSE IF r.host \in FontHosts THEN "font"
    ELSE IF r.host = SelfHost THEN "local"
    ELSE "default"

\* a cache entry: the URL of the request and the status of the stored response
Entry(r, status) == [host |-> r.host, path |-> r.path, status |-> status]

SameUrl(c, r) == c.host = r.host /\ c.path = r.path

\* cache.match(request) / caches.match(request): only a GET request matches
CacheMatch(c, r) == r.method = "GET" /\ \E x \in c : SameUrl(x, r)

\* cache.put(request, response): the entry of that URL is replaced
CachePut(c, x) == {y \in c : ~SameUrl(y, x)} \cup {x}

\* what the network answers to fetch(e.request): an ok response, a response
\* that is not ok, or a rejection (offline)
NetOutcomes == {[threw |-> FALSE, status |-> 200],
                [threw |-> FALSE, status |-> 404],
                [threw |-> TRUE, status |-> 0]}

\* what respondWith hands to the page
NoSwResponse == [src |-> "none", status |-> 0]
FromNetwork(o) == [src |-> "network", status |-> o.status]
FromCache(c, r) == [src |-> "cache",
                    status |-> (CHOOSE x \in c : SameUrl(x, r)).status]

\* new Response('Audio unavailable offline', { status: 503 })
Placeholder == [src |-> "placeholder", status |-> 503]

\* respondWith was given a rejected promise or undefined: a network error
SwNetworkError == [src |-> "error", status |-> 0]

\* a step of an event: a cache lookup or a network fetch, and whether the
\* fetch was rejected
Step(op, failed) == [op |-> op, failed |-> failed]

\* later: the request was made after the page had been handed an ok network
\* response for the same audio URL
IdleEvent == [req |-> NoSwRequest, pc |-> "idle", log |-> <<>>,
              resp |-> NoSwResponse, later |-> FALSE]

\* after install and activate: the cache holds the app shell, no event runs
SwIdle ==
    /\ cache = {Entry(SwRequest(SelfHost, p, "GET"), 200) : p \in APP_SHELL}
    /\ puts = EmptyBag
    /\ ev = [e \in Events |-> IdleEvent]
    /\ answered = {}

---------------------------------------------------------------------------
\* no request has reached the handler yet
GwFresh ==
    /\ pc = "entry"
    /\ attempt = 0
    /\ hist = <<>>
    /\ cur = NoOutcome
    /\ waits = <<>>
    /\ upStatus = <<>>
    /\ subStatus = <<>>
    /\ polls = 0
    /\ pollWaits = 0
    /\ attempts = 0
    /\ allPending = TRUE
    /\ out = NoResponse

Init ==
    /\ handler \in Handlers
    /\ keySet \in BOOLEAN
    /\ req \in Requests
    /\ GwFresh
    /\ SwIdle

\* mutant: the response is produced but the handler goes on to another iteration
Return_AndGoOn(r) == /\ pc' = "loop"
                     /\ out' = r

\* `return new Response(...)`
Return(r) == /\ pc' = "done"
             /\ out' = r


---------------------------------------------------------------------------
(* Synchronous retry handler: src/unnamed/part_001 (and part_000) *)

\* for (...; attempt < MAX_RETRIES; ...)
LoopGuard(a) == a < MAX_RETRIES

\* mutant: the iteration is repeated without counting the attempt
NextAttempt_Stuck(a) == a

\* for (...; ...; attempt++)
NextAttempt(a) == a + 1

\* mutant: every 5xx status is retried like a loading model
IsModelLoading_Any5xx(status) == status >= 500

\* if (response.status === 503)
IsModelLoading(status) == status = 503

\* mutant: the 503 branch gives up one attempt early
MayRetry_EarlyStop(a) == a < MAX_RETRIES - 2

\* mutant: the 503 branch continues on every attempt, the last one included
MayRetry_Always(a) == TRUE

\* if (attempt < MAX_RETRIES - 1) continue
MayRetry(a) == a < MAX_RETRIES - 1

\* mutant: the catch gives up one attempt early
IsLastAttempt_Early(a) == a = MAX_RETRIES - 2

\* if (attempt === MAX_RETRIES - 1) return network_error
IsLastAttempt(a) == a = MAX_RETRIES - 1

RespMethodNotAllowed == Envelope(405, "POST required", "", "", 0)
RespNoAudio400 == Envelope(400, "No audio data received", "", "", 0)
RespServerError(msg) == Envelope(500, "server_error", "", msg, 0)
RespLoading == Envelope(200, "loading", "", "", 0)

\* detail: errorText.substring(0, 200) in part_001, errorText in part_000
ApiErrorDetail(h, t) == IF h = "retry001" THEN Substring(t, DETAIL_CAP) ELSE t

\* the api_error response to the non-ok response held in cur
RespApiError(status) ==
    [Envelope(200, "api_error", "", "errorText", status)
       EXCEPT !.dtext = ApiErrorDetail(handler, cur.body.raw)]

RespSuccess(text) == Envelope(200, "", text, "", 0)
RespNoText(det) == Envelope(200, "no_text", "", det, 0)
\* detail: err.message
RespNetworkError(err) ==
    [Envelope(200, "network_error", "", err.msg, 0) EXCEPT !.dtext = err.text]

\* the inner catch (err) of the retry loop: the last attempt returns
\* network_error, any other attempt falls through to the next iteration
InnerCatch(err) ==
    IF IsLastAttempt(attempt)
    THEN /\ Return(RespNetworkError(err))
         /\ UNCHANGED attempt
    ELSE /\ pc' = "loop"
         /\ attempt' = NextAttempt(attempt)
         /\ UNCHANGED out

\* method check, request.arrayBuffer(), length validation, headers
RetryEntry ==
    /\ pc = "entry"
    /\ handler \in RetryHandlers
    /\ IF req.method # "POST"
       THEN Return(RespMethodNotAllowed)
       ELSE IF ~req.readable
       THEN Return(RespServerError(req.readErr))
       ELSE IF TooSmall(req.len)
       THEN Return(RespNoAudio400)
       ELSE pc' = "loop" /\ UNCHANGED out
    /\ UNCHANGED <<handler, keySet, req, attempt, hist, cur, waits, upStatus,
                   subStatus, polls, pollWaits, attempts, allPending>>
    /\ UNCHANGED swVars

\* head of one loop iteration, up to the decision to wait
RetryLoop ==
    /\ pc = "loop"
    /\ IF LoopGuard(attempt)
       THEN /\ pc' = IF attempt > 0 THEN "wait" ELSE "fetch"
            /\ UNCHANGED out
       ELSE Return(ReturnedUndefined)
    /\ UNCHANGED <<handler, keySet, req, attempt, hist, cur, waits, upStatus,
                   subStatus, polls, pollWaits, attempts, allPending>>
    /\ UNCHANGED swVars

\* await new Promise((resolve) => setTimeout(resolve, waitTime))
RetryWait ==
    /\ pc = "wait"
    /\ waits' = Append(waits, WaitTime(attempt))
    /\ pc' = "fetch"
    /\ UNCHANGED <<handler, keySet, req, attempt, hist, cur, upStatus,
                   subStatus, polls, pollWaits, attempts, allPending, out>>
    /\ UNCHANGED swVars

\* await fetch(HF_API_URL, {...}) under the 180 s abort timer
RetryFetch ==
    /\ pc = "fetch"
    /\ \E o \in FetchOutcomes :
         /\ hist' = Append(hist, o.status)
         /\ cur' = o
         /\ IF o.threw
            THEN InnerCatch(Error(o.msg))
            ELSE /\ pc' = "handle"
                 /\ UNCHANGED <<attempt, out>>
    /\ UNCHANGED <<handler, keySet, req, waits, upStatus, subStatus, polls,
                   pollWaits, attempts, allPending>>
    /\ UNCHANGED swVars

\* everything after clearTimeout: the 503 branch, the !response.ok branch,
\* the parse of a 2xx response, and the inner catch of what they throw.
\* Every branch first awaits the body (response.json() or response.text());
\* clearTimeout(timeoutId) has run by then, so a body that never completes
\* leaves the handler at that await for good.
RetryHandle ==
    /\ pc = "handle"
    /\ ~BodyStalls(cur.body)
    /\ IF ReadFails(cur.body)
       THEN InnerCatch(ReadError)
       ELSE IF IsModelLoading(cur.status)
       THEN IF JsonThrows(cur.body)
            THEN \E err \in SyntaxErrors(cur.body) : InnerCatch(err)
            ELSE IF MayRetry(attempt)
            THEN /\ pc' = "loop"
                 /\ attempt' = NextAttempt(attempt)
                 /\ UNCHANGED out
            ELSE Return(RespLoading) /\ UNCHANGED attempt
       ELSE IF ~ResponseOk(cur.status)
       THEN Return(RespApiError(cur.status)) /\ UNCHANGED attempt
       ELSE IF JsonThrows(cur.body)
       THEN \E err \in SyntaxErrors(cur.body) : InnerCatch(err)
       ELSE IF PropertyThrows(cur.body)
       THEN InnerCatch(NullError)
       ELSE IF Truthy(cur.body.text) /\ ~IsString(cur.body.text)
       THEN InnerCatch(Error("data.text.substring is not a function"))
       ELSE IF Truthy(cur.body.text)
       THEN Return(RespSuccess(cur.body.text)) /\ UNCHANGED attempt
       ELSE /\ Return(RespNoText("API returned valid response but no text field"))
            /\ UNCHANGED attempt
    /\ UNCHANGED <<handler, keySet, req, hist, cur, waits, upStatus, subStatus,
                   polls, pollWaits, attempts, allPending>>
    /\ UNCHANGED swVars

---------------------------------------------------------------------------
(* Single-shot proxies: src/unnamed/part_002 ("proxy002") and the first    *)
(* module of src/netlify/functions/transcribe.mjs ("proxyHF")              *)

\* new Response(hfText, {status: 200}): the backend body handed on as it
\* is.  The handler writes none of the envelope's fields: what the caller
\* finds in the body is what the backend put there, and it is JSON when the
\* backend's text is.
Passthrough(body) ==
    [status |-> 200, json |-> ~JsonThrows(body), passed |-> body]

\* the response to a payload under the minimum
ProxyNoAudio(h) ==
    IF h = "proxy002" THEN RespNoAudio400
    ELSE Envelope(200, "no_audio", "", "", 0)

\* catch (err): proxy_error
ProxyCatch(h, msg) ==
    IF h = "proxy002" THEN Envelope(500, "proxy_error", "", msg, 0)
    ELSE Envelope(200, "proxy_error", "", msg, 0)

\* if (!hfRes.ok) {...}
ProxyBackendError(h, status) ==
    IF h = "proxy002"
    THEN Envelope(200, IF status = 503 THEN "loading" ELSE "hf_error", "", "hfText", status)
    ELSE IF status = 503
    THEN Envelope(200, "loading", "", "", 0)
    ELSE Envelope(200, "hf_error", "", "hfBody", status)

\* detail: hfText in part_002, hfBody.substring(0, 300) in proxyHF (which
\* gives a 503 no detail)
ProxyDetail(h, status, t) ==
    IF h = "proxy002" THEN t
    ELSE IF status = 503 THEN Lit(0)
    ELSE Substring(t, HF_DETAIL_CAP)

\* the response to a non-ok backend response o
ProxyErrorResponse(h, o) ==
    [ProxyBackendError(h, o.status)
       EXCEPT !.dtext = ProxyDetail(h, o.status, o.body.raw)]

ProxyEntry ==
    /\ pc = "entry"
    /\ handler \in ProxyHandlers
    /\ IF req.method # "POST"
       THEN Return(RespMethodNotAllowed)
       ELSE IF ~req.readable
       THEN Return(ProxyCatch(handler, req.readErr))
       ELSE IF TooSmall(req.len)
       THEN Return(ProxyNoAudio(handler))
       ELSE pc' = "proxyfetch" /\ UNCHANGED out
    /\ UNCHANGED <<handler, keySet, req, attempt, hist, cur, waits, upStatus,
                   subStatus, polls, pollWaits, attempts, allPending>>
    /\ UNCHANGED swVars

\* await fetch(HF_URL, ...) and its catch
ProxyFetch ==
    /\ pc = "proxyfetch"
    /\ \E o \in FetchOutcomes :
         /\ hist' = Append(hist, o.status)
         /\ cur' = o
         /\ IF o.threw
            THEN Return(ProxyCatch(handler, o.msg))
            ELSE pc' = "proxyread" /\ UNCHANGED out
    /\ UNCHANGED <<handler, keySet, req, attempt, waits, upStatus, subStatus,
                   polls, pollWaits, attempts, allPending>>
    /\ UNCHANGED swVars

\* await hfRes.text() and the branches on hfRes.ok; no timer runs, so a body
\* that never completes leaves the handler at the await
ProxyRead ==
    /\ pc = "proxyread"
    /\ ~BodyStalls(cur.body)
    /\ IF ReadFails(cur.body)
       THEN Return(ProxyCatch(handler, "terminated"))
       ELSE IF ~ResponseOk(cur.status)
       THEN Return(ProxyErrorResponse(handler, cur))
       ELSE Return(Passthrough(cur.body))
    /\ UNCHANGED <<handler, keySet, req, attempt, hist, cur, waits, upStatus,
                   subStatus, polls, pollWaits, attempts, allPending>>
    /\ UNCHANGED swVars

---------------------------------------------------------------------------
(* Asynchronous AssemblyAI handler: second module of                       *)
(* src/netlify/functions/transcribe.mjs                                    *)

JobStatuses == {"queued", "processing", "completed", "error"}

\* a body that is not JSON: free of the credential, beginning with it, or
\* empty
NonJsonTexts == {PlainRaw, Txt(ShortLen, 0), Lit(0)}

\* upload / submit response bodies: whether they arrive and whether they
\* parse is what matters to the code
ApiBodies ==
    [kind : {"object", "array", "null"}, text : {Undefined}, raw : {PlainRaw}]
      \cup [kind : {"nonjson"}, text : {Undefined}, raw : NonJsonTexts]
      \cup [kind : {"stalled", "failed"}, text : {Undefined}, raw : {Lit(0)}]

ApiOutcomes ==
    [threw : {TRUE}, msg : FetchErrors, status : {0}, body : {NoBody}]
      \cup [threw : {FALSE}, msg : {""}, status : Statuses, body : ApiBodies]

PollTexts == Texts \cup {"", " ", Undefined, NotAString}

\* error is pollData.error, the backend's account of a failed job
PollBodies ==
    [kind : {"object"}, status : (JobStatuses \ {"error"}) \cup {Undefined},
       text : PollTexts, error : {Lit(0)}, raw : {PlainRaw}]
      \cup [kind : {"object"}, status : {"error"}, text : {Undefined},
               error : RawTexts, raw : {PlainRaw}]
      \cup [kind : {"array", "null"}, status : {Undefined},
               text : {Undefined}, error : {Lit(0)}, raw : {PlainRaw}]
      \cup [kind : {"nonjson"}, status : {Undefined},
               text : {Undefined}, error : {Lit(0)}, raw : NonJsonTexts]
      \cup [kind : {"stalled", "failed"}, status : {Undefined},
               text : {Undefined}, error : {Lit(0)}, raw : {Lit(0)}]

NoPollBody == [kind |-> "none", status |-> Undefined, text |-> Undefined,
               error |-> Lit(0), raw |-> Lit(0)]

\* the HTTP status of a status fetch is never read by the code
PollOutcomes ==
    [threw : {TRUE}, msg : FetchErrors, status : {0}, body : {NoPollBody}]
      \cup [threw : {FALSE}, msg : {""}, status : {200, 500}, body : PollBodies]

\* mutant: the key check is missing
KeyMissing_Unchecked == FALSE

\* if (!ASSEMBLYAI_KEY)
KeyMissing == ~keySet

\* mutant: the upload response is used without looking at response.ok
UploadFailed_Unchecked(status) == FALSE

\* if (!response.ok) throw new Error(`Upload failed: ...`)
UploadFailed(status) == ~ResponseOk(status)

\* if (!submitResponse.ok) throw new Error(`Transcription submission failed: ...`)
SubmitFailed(status) == ~ResponseOk(status)

\* if (pollData.status === "completed")
JobCompleted(status) == status = "completed"

\* mutant: a failed job is not looked for
JobFailed_Unchecked(status) == FALSE

\* if (pollData.status === "error")
JobFailed(status) == status = "error"

\* while (attempts < maxAttempts)
PollGuard(n) == n < maxAttempts

\* !text, with text = pollData.text || ""
NoText(text) == text \in {Undefined, ""}

\* !text || text.trim().length === 0, for a text that is a string
Blank(text) == text \in {Undefined, "", " "}

RespNoApiKey == Envelope(200, "no_api_key", "", "", 0)

\* catch (err) of the handler
AsmCatch(err) ==
    Return([Envelope(200, "transcription_error", "", err.msg, 0)
              EXCEPT !.dtext = err.text])

\* throw new Error(`Transcription error: ${pollData.error}`), caught by the handler
AsmJobError(t) ==
    Return([Envelope(200, "transcription_error", "", "Transcription error", 0)
              EXCEPT !.dtext = Prefixed(MsgLen("Transcription error"), t)])

\* the handler's lines after transcribeAudio returned
AsmFinish(text) ==
    IF ~NoText(text) /\ ~IsString(text)
    THEN AsmCatch(Error("text.trim is not a function"))
    ELSE IF Blank(text)
    THEN Return(RespNoText("No speech detected in audio"))
    ELSE Return(RespSuccess(text))

\* a status fetch after which the loop goes on: JSON whose status is
\* neither completed nor error
StillPending(o) ==
    /\ ~o.threw
    /\ ~BodyStalls(o.body)
    /\ ~ReadFails(o.body)
    /\ ~JsonThrows(o.body)
    /\ ~PropertyThrows(o.body)
    /\ o.body.status \notin {"completed", "error"}

\* method check, key check, request.arrayBuffer(), length validation
AsmEntry ==
    /\ pc = "entry"
    /\ handler \in AsyncHandlers
    /\ IF req.method # "POST"
       THEN Return(RespMethodNotAllowed)
       ELSE IF KeyMissing
       THEN Return(RespNoApiKey)
       ELSE IF ~req.readable
       THEN AsmCatch(Error(req.readErr))
       ELSE IF TooSmall(req.len)
       THEN Return(RespNoAudio400)
       ELSE pc' = "upload" /\ UNCHANGED out
    /\ UNCHANGED <<handler, keySet, req, attempt, hist, cur, waits, upStatus,
                   subStatus, polls, pollWaits, attempts, allPending>>
    /\ UNCHANGED swVars

\* uploadAudio(audioData): await fetch(...) and the check of response.ok
AsmUpload ==
    /\ pc = "upload"
    /\ \E o \in ApiOutcomes :
         /\ upStatus' = Append(upStatus, o.status)
         /\ cur' = o
         /\ IF o.threw
            THEN AsmCatch(Error(o.msg))
            ELSE IF UploadFailed(o.status)
            THEN AsmCatch(Error("Upload failed"))
            ELSE pc' = "uploadread" /\ UNCHANGED out
    /\ UNCHANGED <<handler, keySet, req, attempt, hist, waits, subStatus,
                   polls, pollWaits, attempts, allPending>>
    /\ UNCHANGED swVars

\* uploadAudio(audioData): await response.json(); return data.upload_url
AsmUploadRead ==
    /\ pc = "uploadread"
    /\ ~BodyStalls(cur.body)
    /\ IF ReadFails(cur.body)
       THEN AsmCatch(ReadError)
       ELSE IF JsonThrows(cur.body)
       THEN \E err \in SyntaxErrors(cur.body) : AsmCatch(err)
       ELSE IF PropertyThrows(cur.body)
       THEN AsmCatch(NullError)
       ELSE pc' = "submit" /\ UNCHANGED out
    /\ UNCHANGED <<handler, keySet, req, attempt, hist, cur, waits, upStatus,
                   subStatus, polls, pollWaits, attempts, allPending>>
    /\ UNCHANGED swVars

\* transcribeAudio(audioUrl): the submit fetch and the check of
\* submitResponse.ok
AsmSubmit ==
    /\ pc = "submit"
    /\ \E o \in ApiOutcomes :
         /\ subStatus' = Append(subStatus, o.status)
         /\ cur' = o
         /\ IF o.threw
            THEN AsmCatch(Error(o.msg))
            ELSE IF SubmitFailed(o.status)
            THEN AsmCatch(Error("Transcription submission failed"))
            ELSE pc' = "submitread" /\ UNCHANGED out
    /\ UNCHANGED <<handler, keySet, req, attempt, hist, waits, upStatus,
                   polls, pollWaits, attempts, allPending>>
    /\ UNCHANGED swVars

\* transcribeAudio(audioUrl): await submitResponse.json(), submitData.id,
\* up to the start of the poll loop
AsmSubmitRead ==
    /\ pc = "submitread"
    /\ ~BodyStalls(cur.body)
    /\ IF ReadFails(cur.body)
       THEN AsmCatch(ReadError) /\ UNCHANGED attempts
       ELSE IF JsonThrows(cur.body)
       THEN /\ \E err \in SyntaxErrors(cur.body) : AsmCatch(err)
            /\ UNCHANGED attempts
       ELSE IF PropertyThrows(cur.body)
       THEN AsmCatch(NullError) /\ UNCHANGED attempts
       ELSE /\ pc' = "poll"
            /\ attempts' = 0
            /\ UNCHANGED out
    /\ UNCHANGED <<handler, keySet, req, attempt, hist, cur, waits, upStatus,
                   subStatus, polls, pollWaits, allPending>>
    /\ UNCHANGED swVars

\* one evaluation of the while condition and, when it holds, one status
\* fetch
AsmPoll ==
    /\ pc = "poll"
    /\ IF PollGuard(attempts)
       THEN \E o \in PollOutcomes :
              /\ polls' = polls + 1
              /\ cur' = o
              /\ allPending' = (allPending /\ StillPending(o))
              /\ IF o.threw
                 THEN AsmCatch(Error(o.msg))
                 ELSE pc' = "pollread" /\ UNCHANGED out
       ELSE /\ AsmCatch(Error("Transcription timeout"))
            /\ UNCHANGED <<polls, cur, allPending>>
    /\ UNCHANGED <<handler, keySet, req, attempt, hist, waits, upStatus,
                   subStatus, pollWaits, attempts>>
    /\ UNCHANGED swVars

\* await pollResponse.json() and the checks of pollData.status
AsmPollRead ==
    /\ pc = "pollread"
    /\ ~BodyStalls(cur.body)
    /\ IF ReadFails(cur.body)
       THEN AsmCatch(ReadError)
       ELSE IF JsonThrows(cur.body)
       THEN \E err \in SyntaxErrors(cur.body) : AsmCatch(err)
       ELSE IF PropertyThrows(cur.body)
       THEN AsmCatch(NullError)
       ELSE IF JobCompleted(cur.body.status)
       THEN AsmFinish(cur.body.text)
       ELSE IF JobFailed(cur.body.status)
       THEN AsmJobError(cur.body.error)
       ELSE pc' = "pollwait" /\ UNCHANGED out
    /\ UNCHANGED <<handler, keySet, req, attempt, hist, cur, waits, upStatus,
                   subStatus, polls, pollWaits, attempts, allPending>>
    /\ UNCHANGED swVars

\* await new Promise((resolve) => setTimeout(resolve, 1000)); attempts++
AsmPollWait ==
    /\ pc = "pollwait"
    /\ pollWaits' = pollWaits + 1
    /\ attempts' = attempts + 1
    /\ pc' = "poll"
    /\ UNCHANGED <<handler, keySet, req, attempt, hist, cur, waits, upStatus,
                   subStatus, polls, allPending, out>>
    /\ UNCHANGED swVars

---------------------------------------------------------------------------
Next ==
    \/ RetryEntry
    \/ RetryLoop
    \/ RetryWait
    \/ RetryFetch
    \/ RetryHandle
    \/ ProxyEntry
    \/ ProxyFetch
    \/ ProxyRead
    \/ AsmEntry
    \/ AsmUpload
    \/ AsmUploadRead
    \/ AsmSubmit
    \/ AsmSubmitRead
    \/ AsmPoll
    \/ AsmPollRead
    \/ AsmPollWait

Spec == Init /\ [][Next]_vars

---------------------------------------------------------------------------
(* The fetch listener of the service worker: one action per step of the    *)
(* promise chain an event runs, so that the steps of two events interleave *)

\* the first step of a route: the audio, font and local routes look into the
\* cache, the quran and default routes go to the network
FirstStep(route) ==
    IF route \in {"audio", "font", "local"} THEN "match" ELSE "fetch"

Logged(e, op, failed) == Append(ev[e].log, Step(op, failed))

\* e.respondWith(...) settles with this response
Respond(e, op, failed, r) ==
    ev' = [ev EXCEPT ![e].pc = "done",
                     ![e].log = Logged(e, op, failed),
                     ![e].resp = r]

\* the event goes on to the next step of its chain
GoOn(e, op, failed, step) ==
    ev' = [ev EXCEPT ![e].pc = step,
                     ![e].log = Logged(e, op, failed)]

\* some earlier event for this audio URL was answered by the network with
\* an ok response
AnsweredOk(r) == r \in answered

\* cache.put(e.request, response.clone()) is called for the response o
StartsPut(route, o) ==
    \/ route = "audio" /\ ResponseOk(o.status)
    \/ route \in {"quran", "font"}

\* self.addEventListener('fetch', (e) => ...): the page makes a request
SwDispatch(e) ==
    /\ ev[e].pc \in {"idle", "done"}
    /\ \E r \in SwRequests :
         ev' = [ev EXCEPT ![e] = [req |-> r, pc |-> FirstStep(RouteOf(r)),
                                  log |-> <<>>, resp |-> NoSwResponse,
                                  later |-> AnsweredOk(r)]]
    /\ UNCHANGED <<cache, puts, answered>>
    /\ UNCHANGED gwVars

\* cache.match(e.request).then(cached => ...) of the audio and font routes,
\* caches.match(e.request).then(cached => cached || fetch(e.request)) of the
\* local route
SwMatch(e) ==
    /\ ev[e].pc = "match"
    /\ IF CacheMatch(cache, ev[e].req)
       THEN Respond(e, "match", FALSE, FromCache(cache, ev[e].req))
       ELSE GoOn(e, "match", FALSE, "fetch")
    /\ UNCHANGED <<cache, puts, answered>>
    /\ UNCHANGED gwVars

\* fetch(e.request) and its then / catch, by route; a cache.put is started
\* and not awaited
SwFetch(e) ==
    /\ ev[e].pc = "fetch"
    /\ \E o \in NetOutcomes :
         LET route == RouteOf(ev[e].req) IN
         IF o.threw
         THEN /\ IF route = "audio"
                 THEN Respond(e, "fetch", TRUE, Placeholder)
                 ELSE IF route \in {"quran", "default"}
                 THEN GoOn(e, "fetch", TRUE, "fallback")
                 ELSE Respond(e, "fetch", TRUE, SwNetworkError)
              /\ UNCHANGED <<puts, answered>>
         ELSE /\ Respond(e, "fetch", FALSE, FromNetwork(o))
              /\ IF StartsPut(route, o)
                 THEN /\ BagCardinality(puts) < MaxPuts
                      /\ puts' = puts (+) SetToBag({Entry(ev[e].req, o.status)})
                 ELSE UNCHANGED puts
              /\ answered' = IF route = "audio" /\ ResponseOk(o.status)
                             THEN answered \cup {ev[e].req}
                             ELSE answered
    /\ UNCHANGED cache
    /\ UNCHANGED gwVars

\* .catch(() => caches.match(e.request)) of the quran and default routes
SwFallback(e) ==
    /\ ev[e].pc = "fallback"
    /\ IF CacheMatch(cache, ev[e].req)
       THEN Respond(e, "match", FALSE, FromCache(cache, ev[e].req))
       ELSE Respond(e, "match", FALSE, SwNetworkError)
    /\ UNCHANGED <<cache, puts, answered>>
    /\ UNCHANGED gwVars

\* a cache.put started earlier completes
SwCachePut ==
    /\ \E x \in BagToSet(puts) :
         /\ cache' = CachePut(cache, x)
         /\ puts' = puts (-) SetToBag({x})
    /\ UNCHANGED <<ev, answered>>
    /\ UNCHANGED gwVars

SwNext ==
    \/ \E e \in Events : SwDispatch(e)
    \/ \E e \in Events : SwMatch(e)
    \/ \E e \in Events : SwFetch(e)
    \/ \E e \in Events : SwFallback(e)
    \/ SwCachePut

\* the handler behind /api/transcribe with a request not yet received
SwInit ==
    /\ handler = "assembly"
    /\ keySet = TRUE
    /\ req = [method |-> "POST", readable |-> TRUE, len |-> MIN_AUDIO_BYTES,
              readErr |-> ""]
    /\ GwFresh
    /\ SwIdle

SwSpec == SwInit /\ [][SwNext]_vars

---------------------------------------------------------------------------
(* Vocabulary of the claims *)

IsPost == req.method = "POST"

\* the payload is shorter than the minimum of 100 bytes
UnderMinimum == req.len < MIN_AUDIO_BYTES
Done == pc = "done"

\* every network call the request has made so far
NetworkCalls == Len(hist) + Len(upStatus) + Len(subStatus) + polls

\* the response being handled, or just handled, answers the latest backend call
CurIsLatest == hist # <<>> /\ ~cur.threw /\ cur.status = hist[Len(hist)]

AllWarming(h) == \A i \in 1..Len(h) : h[i] = 503

\* 503 on calls 1..N-1 and 200 on call N
WarmingThenOk(h) ==
    /\ h # <<>>
    /\ h[Len(h)] = 200
    /\ \A i \in 1..(Len(h) - 1) : h[i] = 503

ClientErrorStatus(s) == s >= 400 /\ s <= 499
OtherServerErrorStatus(s) == s >= 500 /\ s <= 599 /\ s # 503

\* taxonomy kinds as the handlers spell them
InvalidInputKinds == {"No audio data received", "no_audio"}
IsTimeout(r) == r.error = "transcription_error" /\ r.detail = "Transcription timeout"

---------------------------------------------------------------------------
---------------------------------------------------------------------------
(* C2: retry handler: when the backend answers 503 on every attempt, the   *)
(* request ends after exactly MAX_RETRIES backend calls with the "loading" *)
(* failure, whatever the bodies of the 503 responses are                   *)
C2_AlwaysWarmingEndsLoading ==
    (handler \in RetryHandlers /\ Done /\ hist # <<>> /\ AllWarming(hist)) =>
      /\ Len(hist) = MAX_RETRIES
      /\ out = RespLoading

---------------------------------------------------------------------------
(* C3: retry handler: a 4xx backend response on any attempt ends the       *)
(* request at once with api_error carrying that status: no wait and no     *)
(* further backend call follows it                                         *)
C3_ClientErrorTerminal ==
    (handler \in RetryHandlers /\ CurIsLatest /\ ClientErrorStatus(cur.status)) =>
      /\ pc \in {"handle", "done"}
      /\ Len(waits) = Len(hist) - 1
      /\ Done => out = RespApiError(cur.status)

---------------------------------------------------------------------------
(* C4 as stated: a 5xx response other than 503, on an attempt with         *)
(* attempts-used < max attempts, never ends the request: it is retried     *)
C4_ServerErrorRetried ==
    ~ /\ handler \in RetryHandlers
      /\ Done
      /\ CurIsLatest
      /\ OtherServerErrorStatus(cur.status)
      /\ Len(hist) < MAX_RETRIES

(* C4 as amended: a 5xx response other than 503 whose error body is read   *)
(* is terminal: on any attempt the request fails at once with api_error    *)
(* carrying that status, with no wait and no further backend call.  When   *)
(* the read of the error body rejects, the attempt is handled as a thrown  *)
(* error: the request ends only on the last attempt, with network_error    *)
C4_ServerErrorTerminal ==
    (handler \in RetryHandlers /\ CurIsLatest /\ OtherServerErrorStatus(cur.status)) =>
      IF ReadFails(cur.body)
      THEN Done => (Len(hist) = MAX_RETRIES /\ out = RespNetworkError(ReadError))
      ELSE /\ pc \in {"handle", "done"}
           /\ Len(waits) = Len(hist) - 1
           /\ Done => (out.error = "api_error" /\ out.bstatus = cur.status /\ out.status = 200)

C4_Witness ==
    /\ handler \in RetryHandlers
    /\ Done
    /\ Len(hist) = 2
    /\ hist[2] = 500
    /\ out.error = "api_error"
    /\ out.bstatus = 500

---------------------------------------------------------------------------
(* C5: retry handler: in every reachable state the number of backend calls *)
(* made for the request is at most MAX_RETRIES, whatever the backend does  *)
C5_AttemptsBounded ==
    handler \in RetryHandlers => Len(hist) <= MAX_RETRIES

\* the budget is used up by failures of every sort
C5_Witness ==
    /\ handler \in RetryHandlers
    /\ Done
    /\ Len(hist) = MAX_RETRIES
    /\ \E i, j, k \in 1..MAX_RETRIES : hist[i] = 0 /\ hist[j] = 503 /\ hist[k] = 200

---------------------------------------------------------------------------
(* C6 as stated: a POST whose payload is under the minimum ends with an    *)
(* InvalidInput failure and no network call, in every handler              *)
C6_SmallPayloadInvalidInput ==
    (IsPost /\ req.readable /\ UnderMinimum) =>
      /\ NetworkCalls = 0
      /\ Done => out.error \in InvalidInputKinds

(* C6 as amended: a POST whose payload is under the minimum never causes a *)
(* network call and never leaves the entry step; it ends with InvalidInput, *)
(* except in the AssemblyAI handler without a configured key, where the     *)
(* key check comes first and it ends with no_api_key                        *)
C6_SmallPayloadNoCall ==
    (IsPost /\ req.readable /\ UnderMinimum) =>
      /\ NetworkCalls = 0
      /\ pc \in {"entry", "done"}
      /\ Done => IF handler \in AsyncHandlers /\ ~keySet
                 THEN out.error = "no_api_key"
                 ELSE out.error \in InvalidInputKinds

\* one byte under the minimum, in the asynchronous handler with its key set
C6_Witness ==
    /\ IsPost
    /\ req.readable
    /\ req.len = MIN_AUDIO_BYTES - 1
    /\ handler \in AsyncHandlers
    /\ keySet
    /\ Done
    /\ out.error \in InvalidInputKinds

---------------------------------------------------------------------------
(* C7: AssemblyAI handler: when the submission succeeded and no status     *)
(* fetch reports completed or error, the request fails with the timeout    *)
(* after exactly maxAttempts status fetches, and no wait follows the last  *)
(* of them: the waits are the maxAttempts - 1 between the fetches          *)
C7_TimeoutExactlyAtCeiling ==
    (handler \in AsyncHandlers /\ Done /\ polls > 0 /\ allPending) =>
      /\ IsTimeout(out)
      /\ polls = maxAttempts
      /\ pollWaits = maxAttempts - 1

---------------------------------------------------------------------------
(* C8: AssemblyAI handler: a submit call is made only after the upload     *)
(* call returned an ok response, and a status fetch only after the submit  *)
(* call returned an ok response too; a failed upload or submit ends the    *)
(* request with no status fetch                                            *)
C8_PollOnlyAfterSubmit ==
    handler \in AsyncHandlers =>
      /\ Len(upStatus) <= 1
      /\ Len(subStatus) <= 1
      /\ subStatus # <<>> => (upStatus # <<>> /\ ResponseOk(upStatus[1]))
      /\ polls > 0 => (subStatus # <<>> /\ ResponseOk(subStatus[1]))
      /\ (upStatus # <<>> /\ ~ResponseOk(upStatus[1])) =>
           (Done /\ out.error = "transcription_error" /\ subStatus = <<>> /\ polls = 0)
      /\ (subStatus # <<>> /\ ~ResponseOk(subStatus[1])) =>
           (Done /\ out.error = "transcription_error" /\ polls = 0)

\* polling under way after both calls succeeded
C8_Witness ==
    /\ handler \in AsyncHandlers
    /\ polls >= 2
    /\ upStatus = <<200>>
    /\ subStatus = <<200>>

\* a submit refused by the backend
C8_WitnessSubmitFails ==
    /\ handler \in AsyncHandlers
    /\ Done
    /\ subStatus = <<500>>
    /\ polls = 0

---------------------------------------------------------------------------
(* C9: AssemblyAI handler without a configured key: a POST ends with       *)
(* no_api_key before any attempt: no upload, submit or status fetch is     *)
(* made, whatever the payload is                                           *)
C9_MissingKeyFailsFast ==
    (handler \in AsyncHandlers /\ ~keySet /\ IsPost) =>
      /\ NetworkCalls = 0
      /\ pc \in {"entry", "done"}
      /\ Done => out = RespNoApiKey

\* a payload that would have passed validation
C9_Witness ==
    /\ handler \in AsyncHandlers
    /\ ~keySet
    /\ IsPost
    /\ req.readable
    /\ req.len >= MIN_AUDIO_BYTES
    /\ Done
    /\ out.error = "no_api_key"

---------------------------------------------------------------------------
(* C10 as stated: every response to a POST is a JSON envelope delivered    *)
(* with outer status 200                                                   *)
C10_AlwaysAccepted ==
    (IsPost /\ Done) => (out.status = 200 /\ IsEnvelope(out))

---------------------------------------------------------------------------
\* the handlers that send a credential to the backend
CredentialHandlers == RetryHandlers \cup AsyncHandlers

(* C11: with a credential configured, the detail field of a returned       *)
(* failure never contains the credential, even when the backend's error    *)
(* text contains it                                                        *)
C11_NoCredentialInDetail ==
    (handler \in CredentialHandlers /\ keySet /\ Done) => out.dtext.keyAt = NoKey

---------------------------------------------------------------------------
\* the largest value base_wait + i x increment takes within the retry budget
LargestWait == BASE_WAIT + (MAX_RETRIES - 1) * WAIT_INCREMENT

(* C12: retry handler: no wait precedes the first attempt, and the wait    *)
(* before the attempt with zero-based index i >= 1 is exactly              *)
(* base_wait + i x increment, which never exceeds the largest value the    *)
(* retry budget allows (the code has no smaller cap)                       *)
C12_WaitBeforeRetry ==
    handler \in RetryHandlers =>
      /\ \A i \in 1..Len(waits) :
           /\ waits[i] = BASE_WAIT + i * WAIT_INCREMENT
           /\ waits[i] <= LargestWait
      /\ hist = <<>> => waits = <<>>
      /\ hist # <<>> => Len(waits) \in {Len(hist) - 1, Len(hist)}
      /\ pc = "fetch" => Len(waits) = Len(hist)
      /\ pc \in {"handle", "done"} => Len(waits) = Len(hist) - (IF hist = <<>> THEN 0 ELSE 1)

\* the wait before the last permitted attempt has been made
C12_Witness ==
    /\ handler \in RetryHandlers
    /\ Len(waits) = MAX_RETRIES - 1
    /\ Len(hist) = MAX_RETRIES

---------------------------------------------------------------------------
AllRejected(h) == \A i \in 1..Len(h) : h[i] = 0

(* C13: retry handler: a rejected fetch (network error or attempt timeout) *)
(* on a non-final attempt never ends the request; when every attempt is    *)
(* rejected, the request ends after exactly MAX_RETRIES backend calls with *)
(* network_error, whose detail is the message of the last rejection        *)
C13_NetworkErrorAfterBudget ==
    handler \in RetryHandlers =>
      /\ (hist # <<>> /\ cur.threw /\ Len(hist) < MAX_RETRIES) =>
           pc \in {"loop", "wait", "fetch"}
      /\ (Done /\ hist # <<>> /\ AllRejected(hist)) =>
           /\ Len(hist) = MAX_RETRIES
           /\ out.error = "network_error"
           /\ out.status = 200
           /\ out.detail = cur.msg

\* five rejected attempts, the last one by the abort timer
C13_Witness ==
    /\ handler \in RetryHandlers
    /\ Done
    /\ Len(hist) = MAX_RETRIES
    /\ AllRejected(hist)
    /\ out.error = "network_error"
    /\ out.detail = "This operation was aborted"

---------------------------------------------------------------------------
(* C14: retry handler: every attempt is cut off by its timeout, also while *)
(* the response body is being read, so a request that has not produced its *)
(* response can always take a further step towards one                     *)
C14_NoAttemptHangs ==
    handler \in RetryHandlers => (Done \/ ENABLED Next)

---------------------------------------------------------------------------
\* New = 0, InFlight = 1, Succeeded or Failed = 2
Phase == IF pc = "entry" THEN 0 ELSE IF Done THEN 2 ELSE 1

(* C15: the phase of a request never decreases; the response is produced   *)
(* exactly when the request becomes done and never changes afterwards; and *)
(* once the request is done no backend call, wait or poll is added         *)
C15_ForwardOnly ==
    [][ /\ Phase' >= Phase
        /\ (out' # NoResponse) <=> Done'
        /\ out # NoResponse => out' = out
        /\ Done => /\ Done'
                   /\ NetworkCalls' = NetworkCalls
                   /\ waits' = waits
                   /\ pollWaits' = pollWaits ]_vars

\* a finished request of the retry handler that made calls and waited
C15_Witness ==
    /\ Done
    /\ out # NoResponse
    /\ Len(hist) >= 2
    /\ waits # <<>>

\* a finished request of the asynchronous handler that polled and waited
C15_WitnessAsync ==
    /\ Done
    /\ out # NoResponse
    /\ polls >= 2
    /\ pollWaits >= 1

---------------------------------------------------------------------------
\* the latest backend response is 2xx and its body carries no usable text
OkWithoutText ==
    /\ CurIsLatest
    /\ ResponseOk(cur.status)
    /\ ~BodyStalls(cur.body)
    /\ ~ReadFails(cur.body)
    /\ ~Truthy(cur.body.text)

(* C16: retry handler: a 2xx response without a usable text (missing or    *)
(* empty text, or a body that is not the expected JSON object) ends the    *)
(* request with no_text at that attempt, no further attempt is made        *)
C16_NoTextTerminal ==
    (handler \in RetryHandlers /\ OkWithoutText) =>
        /\ pc \in {"handle", "done"}
        /\ Done => out.error = "no_text"

---------------------------------------------------------------------------
\* the latest status fetch returned a JSON object with this job status
PollReported(status) ==
    /\ handler \in AsyncHandlers
    /\ polls > 0
    /\ ~cur.threw
    /\ cur.body.kind = "object"
    /\ cur.body.status = status

\* polling ended with the latest status fetch: its body is being read or the
\* request is over, no wait and no fetch followed it; nothing was uploaded
\* or submitted a second time
PollingEnded ==
    /\ pc \in {"pollread", "done"}
    /\ pollWaits = polls - 1
    /\ Len(upStatus) = 1
    /\ Len(subStatus) = 1

(* C17 as stated: a status fetch reporting error ends polling with a job   *)
(* error, one reporting completed ends polling with success carrying the   *)
(* job's text                                                              *)
C17_CompletedIsSuccess ==
    /\ PollReported("error") =>
          /\ PollingEnded
          /\ Done => /\ out.error = "transcription_error"
                     /\ out.detail = "Transcription error"
    /\ PollReported("completed") =>
          /\ PollingEnded
          /\ Done => out = RespSuccess(cur.body.text)

\* the job's text is missing, empty or whitespace
NoSpeech(text) == text \in {Undefined, "", " "}

(* C17 amended: a status fetch reporting error ends polling with a job     *)
(* error; one reporting completed ends polling, with success carrying the  *)
(* job's text when the text is a string that is not blank, with no_text    *)
(* when it is blank, and with transcription_error when the text field is   *)
(* not a string                                                            *)
C17_TerminalStatusEndsPolling ==
    /\ PollReported("error") =>
          /\ PollingEnded
          /\ Done => /\ out.error = "transcription_error"
                     /\ out.detail = "Transcription error"
    /\ PollReported("completed") =>
          /\ PollingEnded
          /\ Done => IF NoSpeech(cur.body.text)
                     THEN out.error = "no_text"
                     ELSE IF ~IsString(cur.body.text)
                     THEN /\ out.error = "transcription_error"
                          /\ out.detail = "text.trim is not a function"
                     ELSE out = RespSuccess(cur.body.text)

\* a job reported as failed by the third status fetch
C17_Witness ==
    /\ PollReported("error")
    /\ Done
    /\ polls = 3
    /\ out.error = "transcription_error"

\* a job reported as completed with a text by the second status fetch
C17_WitnessCompleted ==
    /\ PollReported("completed")
    /\ Done
    /\ polls = 2
    /\ out = RespSuccess("bismillah")

---------------------------------------------------------------------------
\* the largest cap any handler applies to a detail
LargestCap == HF_DETAIL_CAP

(* C19: the detail of every response is no longer than a fixed cap,        *)
(* whatever the length of the backend body or exception message it is      *)
(* taken from                                                              *)
C19_DetailCapped ==
    (Done /\ IsEnvelope(out)) => out.dtext.len <= LargestCap

---------------------------------------------------------------------------
(* C20: retry handler: the waits before successive retries are 20 s, 35 s, *)
(* 50 s, 65 s, 80 s: the first is BASE_WAIT, each later one 15 s longer    *)
C20_WaitsStartAtBase ==
    handler \in RetryHandlers =>
        \A i \in 1..Len(waits) : waits[i] = BASE_WAIT + (i - 1) * WAIT_INCREMENT

---------------------------------------------------------------------------
\* the request goes to the gateway endpoint on the app's own origin
IsGateway(r) == r.host = SelfHost /\ r.path = GatewayPath

(* C18: service worker: for a request to /api/transcribe the network is    *)
(* tried first, and the cache is looked into only after the network fetch  *)
(* has failed                                                              *)
C18_GatewayNetworkFirst ==
    \A e \in Events :
        IsGateway(ev[e].req) =>
            LET log == ev[e].log IN
            /\ log # <<>> => log[1].op = "fetch"
            /\ \A i \in 1..Len(log) :
                 log[i].op = "match" =>
                     i > 1 /\ log[i - 1].op = "fetch" /\ log[i - 1].failed
            /\ (ev[e].pc = "done" /\ log[1].failed) =>
                   Len(log) = 2 /\ log[2].op = "match"

---------------------------------------------------------------------------
\* the network was unavailable to the event: every fetch it made was rejected
Offline(e) ==
    \A i \in 1..Len(ev[e].log) :
        ev[e].log[i].op = "fetch" => ev[e].log[i].failed

(* C21: service worker, audio route: a request made after the same audio   *)
(* URL was answered with an ok network response is answered from the       *)
(* cache, never with the 503 placeholder, whatever the interleaving of the *)
(* events and also when the network is unavailable                         *)
C21_AudioServedFromCache ==
    \A e \in Events :
        (ev[e].later /\ ev[e].pc = "done" /\ Offline(e)) =>
            /\ ev[e].resp.src = "cache"
            /\ ev[e].resp # Placeholder

---------------------------------------------------------------------------
\* the request is in its final attempt, or has been ended by it
FinalAttempt == Len(hist) = MAX_RETRIES /\ attempt = MAX_RETRIES - 1

(* C22: retry handler: the loop is never left by its condition: a request  *)
(* at the head of the loop always has an attempt left, the final attempt   *)
(* is only ever being handled or has returned, and the result of a         *)
(* finished request is a response, never undefined                         *)
C22_NeverUndefined ==
    handler \in RetryHandlers =>
        /\ pc = "loop" => attempt < MAX_RETRIES
        /\ Len(hist) = MAX_RETRIES => pc \in {"handle", "done"}
        /\ Done => /\ out # ReturnedUndefined
                   /\ out # NoResponse
                   /\ out.error # Undefined

\* the final attempt answered 503 and the request ended with loading
C22_Witness ==
    /\ handler \in RetryHandlers
    /\ Done
    /\ FinalAttempt
    /\ hist[MAX_RETRIES] = 503
    /\ out.error = "loading"

\* the final attempt threw and the request ended with network_error
C22_WitnessCatch ==
    /\ handler \in RetryHandlers
    /\ Done
    /\ FinalAttempt
    /\ hist[MAX_RETRIES] = 200
    /\ out.error = "network_error"

\* the final attempt answered 200 without a text: no_text
C22_WitnessNoText ==
    /\ handler \in RetryHandlers
    /\ Done
    /\ FinalAttempt
    /\ out.error = "no_text"

=============================================================================
